---- MODULE Spec2Model ----
(***************************************************************************)
(* Local-Anaesthesia: the syringe firmware (moving-average producer), the  *)
(* cheek firmware (running-total producer) and the Unity consumer          *)
(* CombinedController, over a text serial protocol.                        *)
(*                                                                         *)
(* Numbers.  float/double values are modelled as exact rationals           *)
(* <<num, den>> in lowest terms with den > 0, so rounding appears only     *)
(* where the code formats a number as text.  Text is a sequence of         *)
(* one-character strings.                                                  *)
(***************************************************************************)
EXTENDS Integers, Sequences, FiniteSets, TLC

\* ------------------------------------------------------------------ bounds
\* Acquisition cycles a behaviour runs (the loops themselves never end).
MaxCycles == 11
\* Byte runs delivered to the consumer's port in a behaviour.
MaxChunks == 2
\* Errors logged beyond which SerialPort.Open() no longer fails.
MaxLogged == 2
\* Firmware cycles explored when the analog inputs span their whole range.
MaxRangeCycles == 3
\* Firmware cycles explored when the producer is wired to the consumer.
MaxLinkCycles == 2

\* --------------------------------------------------------- program constants
windowSize == 10
numSamples == 10
fullScale == 4095

\* ------------------------------------------------------- rational arithmetic
Abs(n) == IF n < 0 THEN -n ELSE n

RECURSIVE Gcd(_, _)
Gcd(a, b) == IF b = 0 THEN a ELSE Gcd(b, a % b)

\* n/d in lowest terms, sign carried by the numerator.
Rat(n, d) ==
  LET s == IF d < 0 THEN -1 ELSE 1
      g == Gcd(Abs(n), Abs(d))
  IN  <<(s * n) \div g, (s * d) \div g>>

Zero == <<0, 1>>
One == <<1, 1>>

RatAdd(a, b) ==
  LET g == Gcd(a[2], b[2])
      l == a[2] * (b[2] \div g)
  IN  Rat(a[1] * (l \div a[2]) + b[1] * (l \div b[2]), l)

RatNeg(a) == <<-a[1], a[2]>>
RatSub(a, b) == RatAdd(a, RatNeg(b))
RatMul(a, b) == Rat(a[1] * b[1], a[2] * b[2])
RatDivInt(a, k) == Rat(a[1], a[2] * k)
RatLess(a, b) == a[1] * b[2] < b[1] * a[2]

RECURSIVE Pow10(_)
Pow10(k) == IF k = 0 THEN 1 ELSE 10 * Pow10(k - 1)

\* -------------------------------------------------------------------- text
Digits == <<"0", "1", "2", "3", "4", "5", "6", "7", "8", "9">>

RECURSIVE NatToStr(_)
NatToStr(n) ==
  IF n < 10 THEN <<Digits[n + 1]>>
  ELSE NatToStr(n \div 10) \o <<Digits[(n % 10) + 1]>>

\* The `digits` low-order decimal digits of n, most significant first.
RECURSIVE FracToStr(_, _)
FracToStr(n, digits) ==
  IF digits = 0 THEN <<>>
  ELSE FracToStr(n \div 10, digits - 1) \o <<Digits[(n % 10) + 1]>>

\* |r| * 10^digits rounded half up: printFloat adds 0.5 / 10^digits to the
\* magnitude and truncates.
RoundScaled(r, digits) ==
  LET scaled == Abs(r[1]) * Pow10(digits)
      q == scaled \div r[2]
      rem == scaled % r[2]
  IN  IF 2 * rem >= r[2] THEN q + 1 ELSE q

\* Serial.print(float, digits)
PrintFloat(r, digits) ==
  LET m == RoundScaled(r, digits)
  IN  (IF r[1] < 0 THEN <<"-">> ELSE <<>>)
      \o NatToStr(m \div Pow10(digits))
      \o (IF digits > 0 THEN <<".">> ELSE <<>>)
      \o FracToStr(m % Pow10(digits), digits)

\* Serial.println appends "\r\n".
CRLF == <<"\r", "\n">>

\* ------------------------------------------------------------------- state
VARIABLES
  sketch,             \* which sketch the board runs: "Syringe" or "Cheek"
  bnoPresent,         \* whether the BNO055 answers bno.begin()
  pc,                 \* "Uninitialized", "Running" or "Fatal"
  quatBuffer,         \* syringe: the last windowSize orientation samples
  sensorValueBuffer,  \* syringe: the last windowSize plunger samples
  bufferIndex,        \* syringe: the shared cursor (0-based, as in the code)
  avgQuat,            \* syringe: the orientation average of the last cycle
  avgSensorValue,     \* syringe: the plunger average of the last cycle
  readings,           \* cheek: the last numSamples readings
  readIndex,          \* cheek: the cursor
  total,              \* cheek: the running total
  average,            \* cheek: the average of the last cycle
  tx,                 \* every character the board has written to Serial
  cycles,             \* loop() calls completed
  quatLog,            \* history: the writes to quatBuffer, [slot, value]
  sensorLog,          \* history: the writes to sensorValueBuffer / readings,
                      \*   [slot, value, raw] (raw: what analogRead returned)
  serialPort,         \* consumer: "null", "open" or "closed"
  rx,                 \* consumer: characters waiting in the port's buffer
  localRotation,      \* consumer: targetObject.localRotation, <<x, y, z, w>>
  localPosition,      \* consumer: PlungerControl.transform.localPosition
  inUpdate,           \* consumer: an Update() call is waiting in ReadLine()
  logged,             \* consumer: Debug.LogError calls made
  applied,            \* consumer history: frames ApplyQuaternion has applied
  linesRead,          \* consumer history: lines ReadLine() has returned
  lastLine,           \* consumer history: the last line ReadLine() returned
  frame,              \* consumer history: w, x, y, z, plungerValue last parsed
  delivered,          \* byte runs delivered to the port
  sent                \* link: characters of tx that have reached the port

firmwareVars ==
  <<sketch, bnoPresent, pc, quatBuffer, sensorValueBuffer, bufferIndex,
    avgQuat, avgSensorValue, readings, readIndex, total, average, tx, cycles,
    quatLog, sensorLog>>
consumerVars ==
  <<serialPort, rx, inUpdate, localRotation, localPosition, logged, applied,
    linesRead, lastLine, frame, delivered>>
linkVars == <<sent>>
vars == <<firmwareVars, consumerVars, linkVars>>

\* ------------------------------------------------------- syringe firmware
\* imu::Quaternion(1, 0, 0, 0), as <<w, x, y, z>>
IdentityQuat == <<One, Zero, Zero, Zero>>

\* What bno.getQuat() and analogRead(A0) return in one cycle.
SyringeInputs ==
  { [quat |-> IdentityQuat, analog |-> 2048],
    [quat |-> <<Rat(2, 3), Rat(1, 3), Rat(-2, 3), Zero>>, analog |-> 1024] }

Banner == <<"O", "r", "i", "e", "n", "t", "a", "t", "i", "o", "n", " ", "S", "e", "n", "s", "o", "r", " ", "T", "e", "s", "t">>
Oops == <<"O", "o", "o", "p", "s", ",", " ", "n", "o", " ", "B", "N", "O", "0", "5", "5", " ", "d", "e", "t", "e", "c", "t", "e", "d", " ", ".", ".", ".", " ", "C", "h", "e", "c", "k", " ", "y", "o", "u", "r", " ", "w", "i", "r", "i", "n", "g", " ", "o", "r", " ", "I", "2", "C", " ", "A", "D", "D", "R", "!">>

\* Mutant of Normalize: the result is constrained to [0, 1].
NormalizeClamped(raw) ==
  IF raw > fullScale THEN Zero
  ELSE IF raw < 0 THEN One
  ELSE RatAdd(RatMul(Rat(raw, fullScale), <<-1, 1>>), One)

\* rawSensorValue = rawSensorValue / 4095 * -1 + 1
Normalize(raw) == RatAdd(RatMul(Rat(raw, fullScale), <<-1, 1>>), One)

RECURSIVE SumComponent(_, _, _)
SumComponent(buf, c, i) ==
  IF i = 0 THEN Zero ELSE RatAdd(SumComponent(buf, c, i - 1), buf[i][c])

\* Mutant of averageQuat: every component is divided out of the w sum.
averageQuatSharedSum(buf) ==
  [c \in 1..4 |-> RatDivInt(SumComponent(buf, 1, windowSize), windowSize)]

\* averageQuat(): the component-wise mean over all windowSize slots.
averageQuat(buf) ==
  [c \in 1..4 |-> RatDivInt(SumComponent(buf, c, windowSize), windowSize)]

RECURSIVE SumSensor(_, _)
SumSensor(buf, i) ==
  IF i = 0 THEN Zero ELSE RatAdd(SumSensor(buf, i - 1), buf[i])

\* Mutant of averageSensor: the scan starts at i = 1 and misses slot 0.
averageSensorSkipsSlot(buf) ==
  RatDivInt(RatSub(SumSensor(buf, windowSize), buf[1]), windowSize)

\* averageSensor(): the mean over all windowSize slots.
averageSensor(buf) == RatDivInt(SumSensor(buf, windowSize), windowSize)

\* Mutant of printQuaternion: the scalar goes out with print, not println.
printQuaternionNoNewline(quat, sensorValue) ==
  <<"Q", "u", "a", "t", " ", "W", ":">> \o PrintFloat(quat[1], 4)
  \o <<",", " ", "X", ":">> \o PrintFloat(quat[2], 4)
  \o <<",", " ", "Y", ":">> \o PrintFloat(quat[3], 4)
  \o <<",", " ", "Z", ":">> \o PrintFloat(quat[4], 4)
  \o <<",">> \o PrintFloat(sensorValue, 2)

\* Mutant of printQuaternion: the Y field is printed before the X field.
printQuaternionYBeforeX(quat, sensorValue) ==
  <<"Q", "u", "a", "t", " ", "W", ":">> \o PrintFloat(quat[1], 4)
  \o <<",", " ", "Y", ":">> \o PrintFloat(quat[3], 4)
  \o <<",", " ", "X", ":">> \o PrintFloat(quat[2], 4)
  \o <<",", " ", "Z", ":">> \o PrintFloat(quat[4], 4)
  \o <<",">> \o PrintFloat(sensorValue, 2) \o CRLF

\* printQuaternion(quat, sensorValue): one line, the scalar by println's
\* default two fractional digits.
printQuaternion(quat, sensorValue) ==
  <<"Q", "u", "a", "t", " ", "W", ":">> \o PrintFloat(quat[1], 4)
  \o <<",", " ", "X", ":">> \o PrintFloat(quat[2], 4)
  \o <<",", " ", "Y", ":">> \o PrintFloat(quat[3], 4)
  \o <<",", " ", "Z", ":">> \o PrintFloat(quat[4], 4)
  \o <<",">> \o PrintFloat(sensorValue, 2) \o CRLF

\* Mutant of FillBuffers: the orientation slots are zeroed, not set to identity.
FillBuffersZeroQuat ==
  [ quatBuffer |-> [i \in 1..windowSize |-> <<Zero, Zero, Zero, Zero>>],
    sensorValueBuffer |-> [i \in 1..windowSize |-> Zero] ]

\* Lines 46-50 of setup(): every slot gets the neutral value.
FillBuffers ==
  [ quatBuffer |-> [i \in 1..windowSize |-> IdentityQuat],
    sensorValueBuffer |-> [i \in 1..windowSize |-> Zero] ]

\* Mutant of AfterBegin: the failed begin() is reported but setup() goes on.
AfterBeginFallsThrough(began) == "Running"

\* Lines 38-41 of setup(): where setup() goes given what bno.begin() returned.
AfterBegin(began) == IF began THEN "Running" ELSE "Fatal"

\* setup(), from the moment the host has opened the port (while (!Serial) is
\* over): the banner, then either the halt in while (1) or the buffer fill.
SyringeSetup ==
  /\ sketch = "Syringe"
  /\ pc = "Uninitialized"
  /\ pc' = AfterBegin(bnoPresent)
  /\ IF AfterBegin(bnoPresent) = "Running"
       THEN /\ tx' = tx \o Banner \o CRLF \o CRLF
            /\ quatBuffer' = FillBuffers.quatBuffer
            /\ sensorValueBuffer' = FillBuffers.sensorValueBuffer
       ELSE /\ tx' = tx \o Banner \o CRLF \o CRLF \o Oops
            /\ UNCHANGED <<quatBuffer, sensorValueBuffer>>
  /\ UNCHANGED <<sketch, bnoPresent, bufferIndex, avgQuat, avgSensorValue,
                 readings, readIndex, total, average, cycles, quatLog,
                 sensorLog>>
  /\ UNCHANGED <<consumerVars, linkVars>>

\* Mutant of UpdateBuffers: the cursor advances between the two writes.
UpdateBuffersSkewed(qb, sb, idx, rawQuat, rawSensorValue) ==
  [ quatBuffer |-> [qb EXCEPT ![idx + 1] = rawQuat],
    quatSlot |-> idx,
    sensorValueBuffer |->
      [sb EXCEPT ![((idx + 1) % windowSize) + 1] = rawSensorValue],
    sensorSlot |-> (idx + 1) % windowSize,
    bufferIndex |-> (idx + 1) % windowSize ]

\* Mutant of UpdateBuffers: the cursor wraps one slot early.
UpdateBuffersWrapsEarly(qb, sb, idx, rawQuat, rawSensorValue) ==
  [ quatBuffer |-> [qb EXCEPT ![idx + 1] = rawQuat],
    quatSlot |-> idx,
    sensorValueBuffer |-> [sb EXCEPT ![idx + 1] = rawSensorValue],
    sensorSlot |-> idx,
    bufferIndex |-> (idx + 1) % (windowSize - 1) ]

\* Lines 62-65 of loop(): both samples go to the slot the cursor names, then
\* the cursor advances modulo windowSize.  quatSlot and sensorSlot report the
\* index each write used.
UpdateBuffers(qb, sb, idx, rawQuat, rawSensorValue) ==
  [ quatBuffer |-> [qb EXCEPT ![idx + 1] = rawQuat],
    quatSlot |-> idx,
    sensorValueBuffer |-> [sb EXCEPT ![idx + 1] = rawSensorValue],
    sensorSlot |-> idx,
    bufferIndex |-> (idx + 1) % windowSize ]

\* loop(): read, store both samples at the cursor, advance it, average, print.
SyringeLoop(in) ==
  /\ sketch = "Syringe"
  /\ pc = "Running"
  /\ cycles < MaxCycles
  /\ LET rawQuat == in.quat
         rawSensorValue == Normalize(in.analog)
         u == UpdateBuffers(quatBuffer, sensorValueBuffer, bufferIndex,
                            rawQuat, rawSensorValue)
     IN  /\ quatBuffer' = u.quatBuffer
         /\ sensorValueBuffer' = u.sensorValueBuffer
         /\ quatLog' = Append(quatLog, [slot |-> u.quatSlot, value |-> rawQuat])
         /\ sensorLog' =
              Append(sensorLog, [slot |-> u.sensorSlot, value |-> rawSensorValue,
                                raw |-> in.analog])
         /\ bufferIndex' = u.bufferIndex
         /\ avgQuat' = averageQuat(u.quatBuffer)
         /\ avgSensorValue' = averageSensor(u.sensorValueBuffer)
         /\ tx' = tx \o printQuaternion(averageQuat(u.quatBuffer),
                                       averageSensor(u.sensorValueBuffer))
  /\ cycles' = cycles + 1
  /\ UNCHANGED <<sketch, pc, bnoPresent, readings, readIndex, total, average>>
  /\ UNCHANGED <<consumerVars, linkVars>>

\* --------------------------------------------------------- cheek firmware
\* What analogRead(A7) returns in one cycle.
CheekInputs == {40, 175}

CheekLabel == <<"C", "h", "e", "e", "k", " ", ":", " ">>

\* Integer division truncating toward zero, as in C.
TruncDiv(a, b) ==
  IF (a < 0) = (b < 0) THEN Abs(a) \div Abs(b) ELSE -(Abs(a) \div Abs(b))

\* map(x, in_min, in_max, out_min, out_max), in long arithmetic
map(x, in_min, in_max, out_min, out_max) ==
  TruncDiv((x - in_min) * (out_max - out_min), in_max - in_min) + out_min

\* Mutant of constrain: the mapped value is stored as it is.
constrainNothing(amt, low, high) == amt

constrain(amt, low, high) ==
  IF amt < low THEN low ELSE IF amt > high THEN high ELSE amt

CheekSetup ==
  /\ sketch = "Cheek"
  /\ pc = "Uninitialized"
  /\ pc' = "Running"
  /\ UNCHANGED <<sketch, bnoPresent, quatBuffer, sensorValueBuffer,
                 bufferIndex, avgQuat, avgSensorValue, readings, readIndex,
                 total, average, tx, cycles, quatLog, sensorLog>>
  /\ UNCHANGED <<consumerVars, linkVars>>

\* Mutant of RunningTotal: the old reading is never subtracted.
RunningTotalNoSubtract(sum, oldReading, newReading) ==
  RatAdd(sum, <<newReading, 1>>)

\* Lines 17 and 23 of loop(): the slot's old reading leaves the total, the
\* new one enters it.
RunningTotal(sum, oldReading, newReading) ==
  RatAdd(RatSub(sum, <<oldReading, 1>>), <<newReading, 1>>)

\* Mutant of AdvanceReadIndex: the cursor wraps one slot early.
AdvanceReadIndexWrapsEarly(i) == IF i + 1 >= numSamples - 1 THEN 0 ELSE i + 1

\* Lines 26-31 of loop(): the cursor moves on and wraps at numSamples.
AdvanceReadIndex(i) == IF i + 1 >= numSamples THEN 0 ELSE i + 1

\* loop(): running total over the circular buffer, then print the average.
CheekLoop(val) ==
  /\ sketch = "Cheek"
  /\ pc = "Running"
  /\ cycles < MaxCycles
  /\ LET reading == constrain(map(val, 250, 100, 0, 100), 0, 100)
         t == RunningTotal(total, readings[readIndex + 1], reading)
     IN  /\ readings' = [readings EXCEPT ![readIndex + 1] = reading]
         /\ sensorLog' =
              Append(sensorLog, [slot |-> readIndex, value |-> reading,
                                raw |-> val])
         /\ total' = t
         /\ readIndex' = AdvanceReadIndex(readIndex)
         /\ average' = RatDivInt(t, numSamples)
         /\ tx' = tx \o CheekLabel \o PrintFloat(RatDivInt(t, numSamples), 2)
                     \o CRLF
  /\ cycles' = cycles + 1
  /\ UNCHANGED <<sketch, pc, bnoPresent, quatBuffer, sensorValueBuffer,
                 bufferIndex, avgQuat, avgSensorValue, quatLog>>
  /\ UNCHANGED <<consumerVars, linkVars>>

\* ----------------------------------------------- consumer: text operations
\* string.StartsWith
StartsWith(str, prefix) ==
  /\ Len(str) >= Len(prefix)
  /\ SubSeq(str, 1, Len(prefix)) = prefix

\* The indices of str that hold ch.
Positions(str, ch) == {i \in 1..Len(str) : str[i] = ch}

MinOrZero(P) == IF P = {} THEN 0 ELSE CHOOSE i \in P : \A j \in P : i <= j
MaxOrZero(P) == IF P = {} THEN 0 ELSE CHOOSE i \in P : \A j \in P : i >= j

\* The first index of ch in str, 0 when there is none.
IndexOf(str, ch) == MinOrZero(Positions(str, ch))

\* string.Split(ch): the pieces between separators, empty pieces kept.
\* SplitAt is Split given the index i of the first separator.
RECURSIVE Split(_, _)
SplitAt(str, ch, i) ==
  IF i = 0 THEN <<str>>
  ELSE <<SubSeq(str, 1, i - 1)>> \o Split(SubSeq(str, i + 1, Len(str)), ch)

Split(str, ch) == SplitAt(str, ch, IndexOf(str, ch))

\* The white space float.Parse skips at either end.
WhiteSpace == {" ", "\t", "\n", "\r", "\f"}

\* str without its leading and trailing white space.
Trim(str) ==
  SubSeq(str, MinOrZero({i \in 1..Len(str) : str[i] \notin WhiteSpace}),
              MaxOrZero({i \in 1..Len(str) : str[i] \notin WhiteSpace}))

IsDigit(c) == c \in {"0", "1", "2", "3", "4", "5", "6", "7", "8", "9"}
DigitValue(c) == MinOrZero(Positions(Digits, c)) - 1

RECURSIVE DigitsValue(_)
DigitsValue(str) ==
  IF str = <<>> THEN 0
  ELSE 10 * DigitsValue(SubSeq(str, 1, Len(str) - 1)) + DigitValue(str[Len(str)])

\* The outcome of a float.Parse that throws FormatException.
ParseFailed == [ok |-> FALSE, value |-> Zero]

\* The digits ip before and fp after the decimal point, negated if negative.
ParseDigits(ip, fp, negative) ==
  IF /\ Len(ip) + Len(fp) > 0
     /\ \A i \in 1..Len(ip) : IsDigit(ip[i])
     /\ \A i \in 1..Len(fp) : IsDigit(fp[i])
    THEN [ok |-> TRUE,
          value |-> Rat((IF negative THEN -1 ELSE 1) * DigitsValue(ip \o fp),
                        Pow10(Len(fp)))]
    ELSE ParseFailed

\* The unsigned text body, whose first '.' is at index dot (0: none).
ParseUnsigned(body, dot, negative) ==
  ParseDigits(IF dot = 0 THEN body ELSE SubSeq(body, 1, dot - 1),
              IF dot = 0 THEN <<>> ELSE SubSeq(body, dot + 1, Len(body)),
              negative)

\* The trimmed text t: an optional sign, then the unsigned number.
ParseTrimmed(t, signed) ==
  ParseUnsigned(IF signed THEN Tail(t) ELSE t,
                IndexOf(IF signed THEN Tail(t) ELSE t, "."),
                signed /\ t[1] = "-")

\* Whether text t begins with a sign.
HasSign(t) == t # <<>> /\ t[1] \in {"-", "+"}

\* float.Parse(str) for the period-decimal culture: optional white space, an
\* optional sign, digits with at most one '.', at least one digit.  ok is
\* FALSE where float.Parse throws FormatException.  (Exponents and the
\* literals NaN and Infinity do not occur in the modelled lines.)
ParseFloat(str) == ParseTrimmed(Trim(str), HasSign(Trim(str)))

\* float.Parse(pieces[1]) in C# indexing, pieces being field.Split(':'):
\* IndexOutOfRangeException when the field has no ':'.
ParseSecond(pieces) ==
  IF Len(pieces) < 2 THEN ParseFailed ELSE ParseFloat(pieces[2])

\* float.Parse(field.Split(':')[1])
ParseLabelled(field) == ParseSecond(Split(field, ":"))

\* Mutant of Lerp: t is used as it comes (Mathf.LerpUnclamped).
LerpUnclamped(a, b, t) == RatAdd(a, RatMul(RatSub(b, a), t))

\* Mathf.Lerp(a, b, t) = a + (b - a) * Clamp01(t)
Clamp01(t) == IF RatLess(t, Zero) THEN Zero ELSE IF RatLess(One, t) THEN One ELSE t
Lerp(a, b, t) == RatAdd(a, RatMul(RatSub(b, a), Clamp01(t)))

\* ------------------------------------------------- consumer: the decoder
QuatPrefix == <<"Q", "u", "a", "t", " ", "W", ":">>

\* Mutant of IsValidQuaternionData: the prefix test is missing.
IsValidQuaternionDataNoPrefix(data) == Len(Split(data, ",")) >= 5

IsValidQuaternionData(data) ==
  StartsWith(data, QuatPrefix) /\ Len(Split(data, ",")) >= 5

\* Lines 279-283 of ApplyQuaternion: the five parses, in order, of the
\* fields parts (which has at least five entries).
ParseFields(parts) ==
  [k \in 1..5 |-> IF k <= 4 THEN ParseLabelled(parts[k]) ELSE ParseFloat(parts[k])]

\* The result of an ApplyQuaternion whose try block threw: state as it was.
Dropped(rot, pos) ==
  [localRotation |-> rot, localPosition |-> pos, applied |-> FALSE,
   frame |-> <<>>]

\* Mutant of Assigned: the plunger moves on from where it is.
AssignedRelative(w, x, y, z, plungerValue, pos) ==
  [ localRotation |-> <<RatNeg(x), RatNeg(z), RatNeg(y), w>>,
    localPosition |-> <<pos[1], pos[2],
                        Lerp(pos[3], Rat(93, 10000), plungerValue)>>,
    applied |-> TRUE,
    frame |-> <<w, x, y, z, plungerValue>> ]

\* Lines 285-293: the remapped orientation and the plunger position.
Assigned(w, x, y, z, plungerValue, pos) ==
  [ localRotation |-> <<RatNeg(x), RatNeg(z), RatNeg(y), w>>,
    localPosition |-> <<pos[1], pos[2],
                        Lerp(Rat(-532, 10000), Rat(93, 10000), plungerValue)>>,
    applied |-> TRUE,
    frame |-> <<w, x, y, z, plungerValue>> ]

\* ApplyQuaternion given the outcomes p of the five parses.
ApplyParsed(p, rot, pos) ==
  IF \E k \in 1..5 : ~p[k].ok THEN Dropped(rot, pos)
  ELSE Assigned(p[1].value, p[2].value, p[3].value, p[4].value, p[5].value, pos)

\* ApplyQuaternion given parts = data.Split(',').
ApplyFields(parts, rot, pos) ==
  IF Len(parts) < 5 THEN Dropped(rot, pos)
  ELSE ApplyParsed(ParseFields(parts), rot, pos)

\* Mutant of ApplyQuaternion: the rotation is assigned as soon as w, x, y, z
\* are parsed, before the scalar is.
ApplyParsedEager(p, rot, pos) ==
  IF \E k \in 1..4 : ~p[k].ok THEN Dropped(rot, pos)
  ELSE IF ~p[5].ok
    THEN [Dropped(rot, pos) EXCEPT
            !.localRotation = <<RatNeg(p[2].value), RatNeg(p[4].value),
                                RatNeg(p[3].value), p[1].value>>]
  ELSE Assigned(p[1].value, p[2].value, p[3].value, p[4].value, p[5].value, pos)

ApplyQuaternionEager(data, rot, pos) ==
  IF Len(Split(data, ",")) < 5 THEN Dropped(rot, pos)
  ELSE ApplyParsedEager(ParseFields(Split(data, ",")), rot, pos)

\* Mutant of ApplyQuaternion: the orientation is passed on as (x, y, z, w),
\* without the axis remap.
ApplyParsedNoRemap(p, rot, pos) ==
  IF \E k \in 1..5 : ~p[k].ok THEN Dropped(rot, pos)
  ELSE [Assigned(p[1].value, p[2].value, p[3].value, p[4].value, p[5].value,
                 pos)
          EXCEPT !.localRotation = <<p[2].value, p[3].value, p[4].value,
                                     p[1].value>>]

ApplyQuaternionNoRemap(data, rot, pos) ==
  IF Len(Split(data, ",")) < 5 THEN Dropped(rot, pos)
  ELSE ApplyParsedNoRemap(ParseFields(Split(data, ",")), rot, pos)

\* ApplyQuaternion(data) on a consumer whose state is rot, pos: the five
\* parses come first, the two assignments after them; any exception lands in
\* the catch, which logs it.  The result carries the new state, whether the
\* frame was applied, and the five numbers read.
ApplyQuaternion(data, rot, pos) == ApplyFields(Split(data, ","), rot, pos)

\* ------------------------------------------------- consumer: the controller
\* Byte runs a device may deliver to the port in one piece.
ExampleLine == <<"Q", "u", "a", "t", " ", "W", ":", "0", ".", "5", "0", "0", "0", ",", " ", "X", ":", "0", ".", "2", "5", "0", "0", ",", " ", "Y", ":", "-", "0", ".", "1", "0", "0", "0", ",", " ", "Z", ":", "0", ".", "0", "0", "0", "0", ",", "0", ".", "7", "5", "\n">>
GarbageLine == <<"g", "a", "r", "b", "a", "g", "e", "\n">>
BadFirstField == <<"Q", "u", "a", "t", " ", "W", ":", "a", "b", "c", ",", " ", "X", ":", "1", ",", "Y", ":", "1", ",", "Z", ":", "1", ",", "1", "\n">>
BadScalarField == <<"Q", "u", "a", "t", " ", "W", ":", "1", ",", " ", "X", ":", "0", ",", " ", "Y", ":", "0", ",", " ", "Z", ":", "0", ",", "a", "b", "c", "\n">>
NoColonField == <<"Q", "u", "a", "t", " ", "W", ":", "1", ",", " ", "X", ":", "0", ",", " ", "Y", "0", ",", " ", "Z", ":", "0", ",", "1", "\n">>
ShortLine == <<"Q", "u", "a", "t", " ", "W", ":", "1", ",", " ", "X", ":", "2", ",", " ", "Y", ":", "3", "\n">>
WrongPrefix == <<"J", "u", "n", "k", " ", "W", ":", "0", ".", "1", ",", " ", "X", ":", "0", ".", "2", ",", " ", "Y", ":", "0", ".", "3", ",", " ", "Z", ":", "0", ".", "4", ",", "0", ".", "9", "\n">>
IdentityFrame == <<"Q", "u", "a", "t", " ", "W", ":", "1", ".", "0", "0", "0", "0", ",", " ", "X", ":", "0", ".", "0", "0", "0", "0", ",", " ", "Y", ":", "0", ".", "0", "0", "0", "0", ",", " ", "Z", ":", "0", ".", "0", "0", "0", "0", ",", "0", ".", "5", "0", "\r", "\n">>
NegativeScalar == <<"Q", "u", "a", "t", " ", "W", ":", "1", ",", " ", "X", ":", "0", ",", " ", "Y", ":", "0", ",", " ", "Z", ":", "0", ",", "-", "0", ".", "2", "5", "\n">>
PartialHead == <<"Q", "u", "a", "t", " ", "W", ":", "0", ".", "0", ",", " ", "X", ":", "1", ".", "0">>
PartialTail == <<",", " ", "Y", ":", "0", ".", "0", ",", " ", "Z", ":", "0", ".", "0", ",", "2", ".", "5", "\r", "\n">>

Chunks ==
  { ExampleLine, GarbageLine, BadFirstField, BadScalarField, NoColonField,
    ShortLine, WrongPrefix, IdentityFrame, NegativeScalar, PartialHead,
    PartialTail }

\* The entries the dropdown offers: the default one and a port name.
DropdownOptions == {"Select Syringe", "PortA"}

\* CloseSerialPort(): an open port is closed, which discards its buffer.
CloseSerialPort ==
  IF serialPort = "open"
    THEN [serialPort |-> "closed", rx |-> <<>>]
    ELSE [serialPort |-> serialPort, rx |-> rx]

\* DropdownValueChanged -> ConnectToSerialPort / CloseSerialPort.  opens says
\* whether SerialPort.Open() succeeds; its exception is caught and logged.
DropdownValueChanged(selectedPort, opens) ==
  /\ ~inUpdate
  /\ IF selectedPort = "Select Syringe" \/ selectedPort = "No Device"
       THEN /\ serialPort' = CloseSerialPort.serialPort
            /\ rx' = CloseSerialPort.rx
            /\ UNCHANGED logged
       ELSE IF opens
         THEN /\ serialPort' = "open"
              /\ rx' = <<>>
              /\ UNCHANGED logged
         ELSE /\ logged < MaxLogged
              /\ serialPort' = "closed"
              /\ rx' = <<>>
              /\ logged' = logged + 1
  /\ UNCHANGED <<inUpdate, localRotation, localPosition, applied, linesRead,
                 lastLine, frame, delivered>>
  /\ UNCHANGED <<firmwareVars, linkVars>>

\* The device's bytes reach the open port's buffer.
Deliver(chunk) ==
  /\ serialPort = "open"
  /\ delivered < MaxChunks
  /\ rx' = rx \o chunk
  /\ delivered' = delivered + 1
  /\ UNCHANGED <<serialPort, inUpdate, localRotation, localPosition, logged,
                 applied, linesRead, lastLine, frame>>
  /\ UNCHANGED <<firmwareVars, linkVars>>

\* Lines 244-247 of Update() for the line ReadLine() returned: valid says
\* what IsValidQuaternionData answered and r what ApplyQuaternion did.
Process(line, valid, r) ==
  /\ lastLine' = line
  /\ linesRead' = linesRead + 1
  /\ localRotation' = r.localRotation
  /\ localPosition' = r.localPosition
  /\ applied' = IF r.applied THEN applied + 1 ELSE applied
  /\ frame' = IF r.applied THEN r.frame ELSE frame
  /\ logged' = IF valid /\ ~r.applied THEN logged + 1 ELSE logged

\* What line 244-247 do with a line on a consumer in state rot, pos.
Decide(line, valid, rot, pos) ==
  Process(line, valid,
          IF valid THEN ApplyQuaternion(line, rot, pos) ELSE Dropped(rot, pos))

\* Mutant of TakeLine: the read takes everything that is in the buffer
\* (ReadExisting()) and uses its first line.
TakeLineDrainsBuffer(n) ==
  /\ rx' = <<>>
  /\ Decide(SubSeq(rx, 1, n - 1), IsValidQuaternionData(SubSeq(rx, 1, n - 1)),
            localRotation, localPosition)

\* serialPort.ReadLine() returns the text before the first "\n", at index n,
\* and takes it and the "\n" out of the buffer.
TakeLine(n) ==
  /\ rx' = SubSeq(rx, n + 1, Len(rx))
  /\ Decide(SubSeq(rx, 1, n - 1), IsValidQuaternionData(SubSeq(rx, 1, n - 1)),
            localRotation, localPosition)

\* Update() on a port whose buffer has its first "\n" at index n (0: none).
\* Nothing is done without an open port or without bytes; with bytes,
\* ReadLine() returns the first line, or does not return while the buffer
\* holds no line terminator (the port has no read timeout set).
UpdateAt(n) ==
  IF serialPort = "open" /\ Len(rx) > 0
    THEN IF n > 0
           THEN TakeLine(n) /\ UNCHANGED inUpdate
           ELSE /\ inUpdate' = TRUE
                /\ UNCHANGED <<rx, lastLine, linesRead, localRotation,
                               localPosition, applied, frame, logged>>
    ELSE UNCHANGED <<inUpdate, rx, lastLine, linesRead, localRotation,
                     localPosition, applied, frame, logged>>

\* Update is called once per frame.
Update ==
  /\ ~inUpdate
  /\ UpdateAt(IndexOf(rx, "\n"))
  /\ UNCHANGED <<serialPort, delivered>>
  /\ UNCHANGED <<firmwareVars, linkVars>>

\* The ReadLine() an Update() is waiting in returns once a terminator is in.
UpdateResume ==
  /\ inUpdate
  /\ IndexOf(rx, "\n") > 0
  /\ TakeLine(IndexOf(rx, "\n"))
  /\ inUpdate' = FALSE
  /\ UNCHANGED <<serialPort, delivered>>
  /\ UNCHANGED <<firmwareVars, linkVars>>

\* ------------------------------------------------------------ specification
\* The controller before Start(): no port object, the scene's transforms.
InitConsumer ==
  /\ serialPort = "null"
  /\ rx = <<>>
  /\ localRotation = <<Zero, Zero, Zero, One>>
  /\ localPosition = <<Rat(1, 100), Rat(-1, 50), Rat(-532, 10000)>>
  /\ inUpdate = FALSE
  /\ logged = 0
  /\ applied = 0
  /\ linesRead = 0
  /\ lastLine = <<>>
  /\ frame = <<>>
  /\ delivered = 0
  /\ sent = 0

\* The globals as the C++ runtime leaves them before setup(): zeroed
\* arrays and scalars, imu::Quaternion default-constructed to (1, 0, 0, 0).
InitFirmware ==
  /\ pc = "Uninitialized"
  /\ quatBuffer = [i \in 1..windowSize |-> IdentityQuat]
  /\ sensorValueBuffer = [i \in 1..windowSize |-> Zero]
  /\ bufferIndex = 0
  /\ avgQuat = IdentityQuat
  /\ avgSensorValue = Zero
  /\ readings = [i \in 1..numSamples |-> 0]
  /\ readIndex = 0
  /\ total = Zero
  /\ average = Zero
  /\ tx = <<>>
  /\ cycles = 0
  /\ quatLog = <<>>
  /\ sensorLog = <<>>

Init ==
  /\ sketch \in {"Syringe", "Cheek"}
  /\ bnoPresent \in BOOLEAN
  /\ InitFirmware
  /\ InitConsumer

Next ==
  \/ SyringeSetup
  \/ \E in \in SyringeInputs : SyringeLoop(in)
  \/ CheekSetup
  \/ \E val \in CheekInputs : CheekLoop(val)

Spec == Init /\ [][Next]_vars

\* The consumer alone, fed by whatever device is on the port.
InitConsumerOnly ==
  /\ sketch = "Syringe"
  /\ bnoPresent = TRUE
  /\ InitFirmware
  /\ InitConsumer

NextConsumer ==
  \/ \E selectedPort \in DropdownOptions, opens \in BOOLEAN :
       DropdownValueChanged(selectedPort, opens)
  \/ \E chunk \in Chunks : Deliver(chunk)
  \/ Update
  \/ UpdateResume

SpecConsumer == InitConsumerOnly /\ [][NextConsumer]_vars

\* The firmwares over the whole range of their analog inputs, for a few
\* cycles: what analogRead can return at 12 bits and, for the syringe, a
\* reading beyond the 4095 the sketch divides by.
RangeAnalog == {0, 1024, 4095, 4096, 5000}
RangeCheek == {40, 100, 175, 250, 300}

RangeSyringeLoop(analog) ==
  /\ cycles < MaxRangeCycles
  /\ SyringeLoop([quat |-> IdentityQuat, analog |-> analog])

RangeCheekLoop(val) ==
  /\ cycles < MaxRangeCycles
  /\ CheekLoop(val)

NextRange ==
  \/ SyringeSetup
  \/ \E analog \in RangeAnalog : RangeSyringeLoop(analog)
  \/ CheekSetup
  \/ \E val \in RangeCheek : RangeCheekLoop(val)

SpecRange == Init /\ [][NextRange]_vars

\* The syringe board wired to the consumer.  setup() waits at line 31 until
\* the host has opened the port, so the board starts once the user has
\* connected; from then on what the board prints reaches the port's buffer
\* in order, in runs of any length.
InitLink ==
  /\ sketch = "Syringe"
  /\ bnoPresent \in BOOLEAN
  /\ InitFirmware
  /\ InitConsumer

Connect ==
  /\ serialPort = "null"
  /\ DropdownValueChanged("PortA", TRUE)

LinkSetup ==
  /\ serialPort = "open"
  /\ SyringeSetup

LinkLoop(in) ==
  /\ cycles < MaxLinkCycles
  /\ SyringeLoop(in)

\* The next n characters the board printed (or all that is left) arrive.
TransmitSizes == {20, 1000}
Transmit(n) ==
  /\ serialPort = "open"
  /\ sent < Len(tx)
  /\ sent' = IF sent + n > Len(tx) THEN Len(tx) ELSE sent + n
  /\ rx' = rx \o SubSeq(tx, sent + 1, sent')
  /\ UNCHANGED <<serialPort, inUpdate, localRotation, localPosition, logged,
                 applied, linesRead, lastLine, frame, delivered>>
  /\ UNCHANGED firmwareVars

NextLink ==
  \/ Connect
  \/ LinkSetup
  \/ \E in \in SyringeInputs : LinkLoop(in)
  \/ \E n \in TransmitSizes : Transmit(n)
  \/ Update
  \/ UpdateResume

SpecLink == InitLink /\ [][NextLink]_vars

\* =================================================================== claims
EndsWith(str, suffix) ==
  /\ Len(str) >= Len(suffix)
  /\ SubSeq(str, Len(str) - Len(suffix) + 1, Len(str)) = suffix

\* A log value as a rational (the cheek sketch stores integers).
AsRat(v) == IF sketch = "Cheek" THEN <<v, 1>> ELSE v

\* The sum of the values of log entries from..to.
RECURSIVE SumLog(_, _, _)
SumLog(log, from, to) ==
  IF to < from THEN Zero
  ELSE RatAdd(SumLog(log, from, to - 1), AsRat(log[to].value))

RECURSIVE SumQuatLog(_, _, _)
SumQuatLog(log, c, to) ==
  IF to = 0 THEN Zero ELSE RatAdd(SumQuatLog(log, c, to - 1), log[to].value[c])

\* The line the board wrote last, as ReadLine() would return it.
LastLineOf(out) ==
  LET lines == Split(out, "\n") IN lines[Len(lines) - 1]

\* C1: once the window is full (cycles >= N) the scalar average of a cycle is
\* the arithmetic mean of exactly the samples written in the last N cycles,
\* the sample of this cycle included, and that is the number printed; in the
\* syringe sketch and in the cheek sketch alike.
C1_AverageIsMeanOfLastN ==
  (pc = "Running" /\ cycles >= windowSize) =>
    LET mean == RatDivInt(SumLog(sensorLog, cycles - windowSize + 1, cycles),
                          windowSize)
    IN  IF sketch = "Syringe"
          THEN /\ avgSensorValue = mean
               /\ EndsWith(tx, <<",">> \o PrintFloat(mean, 2) \o CRLF)
          ELSE /\ average = mean
               /\ EndsWith(tx, CheekLabel \o PrintFloat(mean, 2) \o CRLF)

C1_Witness ==
  /\ sketch = "Syringe"
  /\ cycles = windowSize + 1
  /\ sensorLog[1].value # sensorLog[2].value
  /\ sensorLog[1].value # sensorLog[cycles].value

\* The last write to a slot in a log, 0 when the slot was never written.
LastWrite(log, slot) ==
  IF \E k \in 1..Len(log) : log[k].slot = slot
    THEN CHOOSE k \in 1..Len(log) :
           /\ log[k].slot = slot
           /\ \A j \in (k + 1)..Len(log) : log[j].slot # slot
    ELSE 0

\* C2: the two buffers advance in lockstep: after C cycles each has been
\* written C times, the k-th writes of both used the same cursor value, and
\* the two samples a slot holds were written in the same cycle.
C2_Lockstep ==
  sketch = "Syringe" =>
    /\ Len(quatLog) = cycles
    /\ Len(sensorLog) = cycles
    /\ \A k \in 1..cycles : quatLog[k].slot = sensorLog[k].slot
    /\ \A slot \in 0..(windowSize - 1) :
         LET kq == LastWrite(quatLog, slot)
             ks == LastWrite(sensorLog, slot)
         IN  /\ kq = ks
             /\ kq > 0 => /\ quatBuffer[slot + 1] = quatLog[kq].value
                          /\ sensorValueBuffer[slot + 1] = sensorLog[kq].value

C2_Witness ==
  /\ sketch = "Syringe"
  /\ cycles = windowSize + 1
  /\ quatLog[1].value # quatLog[cycles].value

\* C3: setup() leaves every slot of both buffers neutral (identity
\* orientation, zero scalar), so in a cycle C < N both averages are
\* (the C samples written so far + (N - C) neutral values) / N.
C3_NeutralFill ==
  (sketch = "Syringe" /\ pc = "Running" /\ cycles < windowSize) =>
    /\ \A i \in (cycles + 1)..windowSize :
         quatBuffer[i] = IdentityQuat /\ sensorValueBuffer[i] = Zero
    /\ cycles > 0 =>
         /\ \A c \in 1..4 :
              avgQuat[c] =
                RatDivInt(RatAdd(SumQuatLog(quatLog, c, cycles),
                                 RatMul(<<windowSize - cycles, 1>>,
                                        IdentityQuat[c])),
                          windowSize)
         /\ avgSensorValue = RatDivInt(SumLog(sensorLog, 1, cycles), windowSize)

C3_Witness ==
  /\ sketch = "Syringe"
  /\ pc = "Running"
  /\ cycles = 3
  /\ quatLog[2].value # IdentityQuat

RECURSIVE SumReadings(_, _)
SumReadings(buf, i) == IF i = 0 THEN 0 ELSE SumReadings(buf, i - 1) + buf[i]

\* C4: the running total of the cheek sketch equals, after every write, the
\* sum of the N slots taken from scratch, so the incremental average equals
\* the full-scan average over the same slots.
C4_RunningTotalIsSum ==
  sketch = "Cheek" =>
    /\ total = <<SumReadings(readings, numSamples), 1>>
    /\ cycles > 0 =>
         /\ average = Rat(SumReadings(readings, numSamples), numSamples)
         /\ average = averageSensor([i \in 1..numSamples |-> <<readings[i], 1>>])

C4_Witness ==
  /\ sketch = "Cheek"
  /\ cycles = numSamples + 1
  /\ sensorLog[1].value # sensorLog[cycles].value

\* C5: when the motion sensor does not answer, setup() ends in Fatal and
\* stays there: no cycle runs, no buffer or cursor is written, nothing more
\* is printed, and no line of the output is a frame.
C5_FatalIsTerminal ==
  [][ (sketch = "Syringe" /\ ~bnoPresent /\ pc' # "Uninitialized") =>
        /\ pc' = "Fatal"
        /\ cycles' = 0
        /\ quatLog' = <<>> /\ sensorLog' = <<>>
        /\ bufferIndex' = 0
        /\ \A i \in 1..windowSize :
             quatBuffer'[i] = IdentityQuat /\ sensorValueBuffer'[i] = Zero
        /\ \A k \in 1..Len(Split(tx', "\n")) :
             ~StartsWith(Split(tx', "\n")[k], QuatPrefix)
        /\ pc = "Fatal" => UNCHANGED firmwareVars ]_vars

C5_Witness ==
  /\ sketch = "Syringe"
  /\ pc = "Fatal"
  /\ EndsWith(tx, Oops)

\* C6: in Running every cycle prints exactly one complete frame line: after
\* C cycles the output holds the two banner lines and then C lines, each a
\* frame of five fields ending in "\r\n", with nothing left unterminated.
C6_OneLinePerCycle ==
  (sketch = "Syringe" /\ pc = "Running") =>
    LET lines == Split(tx, "\n")
    IN  /\ Len(lines) = cycles + 3
        /\ lines[Len(lines)] = <<>>
        /\ \A k \in 3..(Len(lines) - 1) :
             /\ StartsWith(lines[k], QuatPrefix)
             /\ Len(Split(lines[k], ",")) = 5
             /\ EndsWith(lines[k], <<"\r">>)

C6_Witness ==
  /\ sketch = "Syringe"
  /\ pc = "Running"
  /\ cycles = 3

\* What ReadLine() returns for a delivered line: the text before its "\n".
Body(chunk) == SubSeq(chunk, 1, Len(chunk) - 1)

CommaCount(str) == Cardinality({i \in 1..Len(str) : str[i] = ","})

\* The shape test as the protocol words it: the seven characters "Quat W:"
\* first, and at least four commas (five fields).
HasFrameShape(str) ==
  /\ Len(str) >= 7
  /\ \A i \in 1..7 : str[i] = QuatPrefix[i]
  /\ CommaCount(str) >= 4

InitialRotation == <<Zero, Zero, Zero, One>>
InitialPosition == <<Rat(1, 100), Rat(-1, 50), Rat(-532, 10000)>>

\* C7: a line that does not begin with "Quat W:" or has fewer than five
\* comma-separated fields is discarded: the Update() that read it returns,
\* leaves orientation and plunger position as they were, and logs no error.
C7_InvalidLineDiscarded ==
  [][ (linesRead' = linesRead + 1 /\ ~HasFrameShape(lastLine')) =>
        /\ UNCHANGED <<localRotation, localPosition, logged, applied>>
        /\ inUpdate' = FALSE ]_vars

C7_Witness ==
  /\ lastLine = Body(GarbageLine)
  /\ applied > 0
  /\ localRotation # InitialRotation

\* Some one of the five fields of a shape-valid line does not parse.
SomeFieldFails(str) ==
  LET parts == Split(str, ",")
  IN  \/ \E k \in 1..4 : ~ParseLabelled(parts[k]).ok
      \/ ~ParseFloat(parts[5]).ok

\* C8: a shape-valid line with a field that fails to parse is dropped whole:
\* neither orientation nor plunger position changes, so the consumer always
\* shows either its initial state or the last fully parsed frame.
C8_ParseFailureAtomic ==
  [][ /\ (linesRead' = linesRead + 1 /\ HasFrameShape(lastLine')
            /\ SomeFieldFails(lastLine')) =>
          UNCHANGED <<localRotation, localPosition, applied, frame>>
      /\ IF applied' = 0
           THEN localRotation' = InitialRotation
                /\ localPosition' = InitialPosition
           ELSE /\ localRotation' = <<RatNeg(frame'[2]), RatNeg(frame'[4]),
                                      RatNeg(frame'[3]), frame'[1]>>
                /\ localPosition' =
                     <<InitialPosition[1], InitialPosition[2],
                       Lerp(Rat(-532, 10000), Rat(93, 10000), frame'[5])>> ]_vars

C8_Witness ==
  /\ lastLine = Body(BadScalarField)
  /\ applied > 0
  /\ localRotation # InitialRotation

\* C9: a valid line yields w, x, y, z from the text after the ':' of fields
\* 1 to 4 and the scalar from field 5; the example line gives w = 0.5,
\* x = 0.25, y = -0.1, z = 0, scalar = 0.75, and the orientation becomes
\* (-x, -z, -y, w).
C9_DecodeExample ==
  /\ (linesRead > 0 /\ lastLine = Body(ExampleLine)) =>
       /\ frame = <<Rat(1, 2), Rat(1, 4), Rat(-1, 10), Zero, Rat(3, 4)>>
       /\ localRotation = <<Rat(-1, 4), Zero, Rat(1, 10), Rat(1, 2)>>
  /\ (linesRead > 0 /\ lastLine = Body(IdentityFrame)) =>
       /\ frame = <<One, Zero, Zero, Zero, Rat(1, 2)>>
       /\ localRotation = <<Zero, Zero, Zero, One>>
  /\ (linesRead > 0 /\ lastLine = Body(PartialHead \o PartialTail)) =>
       /\ frame = <<Zero, One, Zero, Zero, Rat(5, 2)>>
       /\ localRotation = <<RatNeg(One), Zero, Zero, Zero>>

C9_Witness ==
  /\ lastLine = Body(ExampleLine)
  /\ applied = 1
  /\ frame[3] = Rat(-1, 10)

RatAbs(a) == <<Abs(a[1]), a[2]>>

\* |a - b| <= 0.5 * 10^-digits
WithinHalfUnit(a, b, digits) ==
  ~RatLess(Rat(1, 2 * Pow10(digits)), RatAbs(RatSub(a, b)))

\* C10: every frame line the syringe sketch prints passes the decoder's
\* validity test and decodes to the averages of that cycle at the printed
\* precision (four fractional digits for w, x, y, z, two for the scalar);
\* after ten identical samples of orientation (1,0,0,0) and the scalar
\* nearest 0.5 the line decodes to exactly (1, 0, 0, 0, 0.5).
C10_RoundTrip ==
  (sketch = "Syringe" /\ cycles > 0) =>
    LET line == LastLineOf(tx)
        r == ApplyQuaternion(line, <<Zero, Zero, Zero, One>>,
                             <<Zero, Zero, Zero>>)
    IN  /\ IsValidQuaternionData(line)
        /\ r.applied
        /\ \A c \in 1..4 : WithinHalfUnit(r.frame[c], avgQuat[c], 4)
        /\ WithinHalfUnit(r.frame[5], avgSensorValue, 2)
        /\ r.localRotation = <<RatNeg(r.frame[2]), RatNeg(r.frame[4]),
                               RatNeg(r.frame[3]), r.frame[1]>>
        /\ ( /\ cycles = windowSize
             /\ \A k \in 1..cycles :
                  /\ quatLog[k].value = IdentityQuat
                  /\ sensorLog[k].value = Rat(2047, 4095) )
           => r.frame = <<One, Zero, Zero, Zero, Rat(1, 2)>>

C10_Witness ==
  /\ sketch = "Syringe"
  /\ cycles = windowSize
  /\ \A k \in 1..cycles :
       /\ quatLog[k].value = IdentityQuat
       /\ sensorLog[k].value = Rat(2047, 4095)
  /\ EndsWith(tx, <<",", "0", ".", "5", "0", "\r", "\n">>)

\* C11: the consumer processes only complete lines and is never frozen by
\* serial input: every Update() call completes, also when the port holds bytes
\* that no line terminator follows yet, and a frame is applied only from a line
\* that was in the buffer whole, terminator included.
\* serialPort.ReadLine() at line 243 does not return while the buffer holds
\* bytes without a "\n": the Update() that called it never completes.
C11_UpdateNeverBlocks ==
  [][ ~inUpdate =>
        /\ ~inUpdate'
        /\ (applied' > applied => rx = lastLine' \o <<"\n">> \o rx') ]_vars

\* The sum of component c over the slots in S, slot by slot.
RECURSIVE SumSlots(_, _, _)
SumSlots(buf, c, S) ==
  IF S = {} THEN Zero
  ELSE LET i == CHOOSE j \in S : \A k \in S : j >= k
       IN  RatAdd(buf[i][c], SumSlots(buf, c, S \ {i}))

\* The squared length of a 4-tuple.
NormSq(q) ==
  RatAdd(RatAdd(RatMul(q[1], q[1]), RatMul(q[2], q[2])),
         RatAdd(RatMul(q[3], q[3]), RatMul(q[4], q[4])))

\* C12: the orientation average of a cycle is, for each of w, x, y, z on its
\* own, the arithmetic mean of that component over all N slots of the
\* orientation buffer; it is what the cycle's line carries; and it is not
\* renormalized: when the slots (all of unit length) are not all equal, the
\* emitted 4-tuple is not of unit length.
C12_ComponentwiseMean ==
  (sketch = "Syringe" /\ pc = "Running" /\ cycles > 0) =>
    /\ \A c \in 1..4 :
         RatMul(avgQuat[c], <<windowSize, 1>>)
           = SumSlots(quatBuffer, c, 1..windowSize)
    /\ EndsWith(tx, printQuaternion(avgQuat, avgSensorValue))
    /\ (\A i \in 1..windowSize : NormSq(quatBuffer[i]) = One)
    /\ (\E i, j \in 1..windowSize : quatBuffer[i] # quatBuffer[j])
         => NormSq(avgQuat) # One

\* Slots that differ, averaged to a 4-tuple shorter than 1.
C12_Witness ==
  /\ sketch = "Syringe" /\ pc = "Running" /\ cycles > 0
  /\ \E i, j \in 1..windowSize : quatBuffer[i] # quatBuffer[j]
  /\ RatLess(NormSq(avgQuat), One)

\* The window length and the cursor of the sketch that runs.
WindowLen == IF sketch = "Cheek" THEN numSamples ELSE windowSize
Cursor == IF sketch = "Cheek" THEN readIndex ELSE bufferIndex

\* Sample k (the k-th write, counted from 1) is what slot (k-1) mod N holds.
HoldsSample(k) ==
  IF sketch = "Cheek"
    THEN /\ sensorLog[k].slot = (k - 1) % numSamples
         /\ readings[((k - 1) % numSamples) + 1] = sensorLog[k].value
    ELSE /\ quatLog[k].slot = (k - 1) % windowSize
         /\ sensorLog[k].slot = (k - 1) % windowSize
         /\ quatBuffer[((k - 1) % windowSize) + 1] = quatLog[k].value
         /\ sensorValueBuffer[((k - 1) % windowSize) + 1] = sensorLog[k].value

\* C13: after C >= N writes each buffer holds exactly the samples numbered
\* C-N+1..C, sample k in slot (k-1) mod N (N slots, N samples, one each); so
\* after N+1 writes slot 0 holds sample N+1, sample 1 is gone and the buffer
\* holds samples 2..N+1.
C13_WindowHoldsLastN ==
  (pc = "Running" /\ cycles >= WindowLen) =>
    /\ \A k \in (cycles - WindowLen + 1)..cycles : HoldsSample(k)
    /\ cycles = WindowLen + 1 =>
         IF sketch = "Cheek"
           THEN readings[1] = sensorLog[numSamples + 1].value
           ELSE /\ quatBuffer[1] = quatLog[windowSize + 1].value
                /\ sensorValueBuffer[1] = sensorLog[windowSize + 1].value

\* N+1 writes, the last one different from the first: sample 1 has left
\* slot 0 of both buffers.
C13_Witness ==
  /\ sketch = "Syringe" /\ pc = "Running"
  /\ cycles = windowSize + 1
  /\ quatLog[1].value # quatLog[windowSize + 1].value
  /\ sensorLog[1].value # sensorLog[windowSize + 1].value
  /\ quatBuffer[1] # quatLog[1].value
  /\ sensorValueBuffer[1] # sensorLog[1].value
  /\ \A k \in 2..(windowSize + 1) : HoldsSample(k)

\* C14: the cursor is always in [0, N): it is 0 before the first cycle,
\* equals C mod N after C cycles (one step per cycle, N-1 followed by 0), and
\* every buffer write so far used an index in [0, N).
C14_CursorInBounds ==
  /\ Cursor \in 0..(WindowLen - 1)
  /\ Cursor = cycles % WindowLen
  /\ \A k \in 1..Len(sensorLog) : sensorLog[k].slot \in 0..(WindowLen - 1)
  /\ \A k \in 1..Len(quatLog) : quatLog[k].slot \in 0..(WindowLen - 1)
  /\ Len(sensorLog) = cycles
  /\ sketch = "Syringe" => Len(quatLog) = cycles

\* The cursor back at 0 after N cycles, the N-th write having used slot N-1.
C14_Witness ==
  /\ sketch = "Cheek" /\ pc = "Running"
  /\ cycles = numSamples
  /\ readIndex = 0
  /\ sensorLog[numSamples].slot = numSamples - 1

\* C15: the syringe firmware stores raw/fullScale * -1 + 1 (fullScale 4095),
\* that is (fullScale - raw)/fullScale, without clamping: a raw reading in
\* [0, fullScale] is stored as a value in [0, 1]; a raw reading above
\* fullScale is stored as a negative value, enters the average as it is and
\* goes out on the line as it is.
C15_NormalizedUnclamped ==
  (sketch = "Syringe" /\ pc = "Running" /\ cycles > 0) =>
    /\ \A k \in 1..cycles :
         /\ RatMul(sensorLog[k].value, <<fullScale, 1>>)
              = <<fullScale - sensorLog[k].raw, 1>>
         /\ sensorLog[k].raw \in 0..fullScale =>
              /\ ~RatLess(sensorLog[k].value, Zero)
              /\ ~RatLess(One, sensorLog[k].value)
         /\ sensorLog[k].raw > fullScale => RatLess(sensorLog[k].value, Zero)
         /\ k > cycles - windowSize =>
              sensorValueBuffer[sensorLog[k].slot + 1] = sensorLog[k].value
    /\ RatMul(avgSensorValue, <<windowSize, 1>>)
         = SumLog(sensorLog, IF cycles > windowSize
                               THEN cycles - windowSize + 1 ELSE 1, cycles)
    /\ EndsWith(tx, <<",">> \o PrintFloat(avgSensorValue, 2) \o CRLF)

\* Three readings of 5000: the average -2715/40950 goes out as "-0.07".
C15_Witness ==
  /\ sketch = "Syringe" /\ pc = "Running"
  /\ cycles = 3
  /\ \A k \in 1..3 : sensorLog[k].raw = 5000
  /\ \A k \in 1..3 : sensorValueBuffer[k] = Rat(-905, 4095)
  /\ RatLess(avgSensorValue, Zero)
  /\ EndsWith(tx, <<",", "-", "0", ".", "0", "7", "\r", "\n">>)

\* C16: the consumer clamps the scalar before the range-map: whatever scalar
\* the last applied line carried, below 0 and above 1 included, the plunger's
\* Z position lies in [-0.0532, 0.0093]; it is -0.0532 for a scalar <= 0,
\* 0.0093 for a scalar >= 1 and -0.0532 + 0.0625 * scalar in between; the
\* plunger's X and Y positions are the ones it started with.
C16_PlungerClamped ==
  applied > 0 =>
    /\ ~RatLess(localPosition[3], Rat(-532, 10000))
    /\ ~RatLess(Rat(93, 10000), localPosition[3])
    /\ ~RatLess(Zero, frame[5]) => localPosition[3] = Rat(-532, 10000)
    /\ ~RatLess(frame[5], One) => localPosition[3] = Rat(93, 10000)
    /\ (RatLess(Zero, frame[5]) /\ RatLess(frame[5], One)) =>
         RatMul(localPosition[3], <<10000, 1>>)
           = RatAdd(<<-532, 1>>, RatMul(<<625, 1>>, frame[5]))
    /\ localPosition[1] = InitialPosition[1]
    /\ localPosition[2] = InitialPosition[2]

\* A scalar of -0.25, applied after a frame that had moved the plunger, puts
\* it back at -0.0532.
C16_Witness ==
  /\ applied = 2
  /\ frame[5] = Rat(-1, 4)
  /\ localPosition[3] = Rat(-532, 10000)
  /\ localPosition[1] = Rat(1, 100)
  /\ localPosition[2] = Rat(-1, 50)

\* What a line does to a consumer that has received nothing before it.
FreshDecode(line) == ApplyQuaternion(line, InitialRotation, InitialPosition)

\* C17: decoding is stateless across lines: whenever a line is read, orientation
\* and plunger position afterwards are what that line alone gives on a fresh
\* consumer if it is valid and parses, and what they were before otherwise.  So
\* they are a function of the most recent valid, parseable line; the same line
\* twice gives what it gives once; and a valid line after dropped garbage is
\* applied in full.
C17_StatelessDecode ==
  [][ linesRead' = linesRead + 1 =>
        IF HasFrameShape(lastLine') /\ ~SomeFieldFails(lastLine')
          THEN /\ localRotation' = FreshDecode(lastLine').localRotation
               /\ localPosition' = FreshDecode(lastLine').localPosition
               /\ applied' = applied + 1
          ELSE UNCHANGED <<localRotation, localPosition, applied>> ]_vars

\* The example line read right after a dropped line: the state is the one
\* the example line gives on its own.
C17_Witness ==
  /\ linesRead = 2
  /\ applied = 1
  /\ lastLine = Body(ExampleLine)
  /\ localRotation = <<Rat(-1, 4), Zero, Rat(1, 10), Rat(1, 2)>>
  /\ localPosition = <<Rat(1, 100), Rat(-1, 50), Rat(-253, 40000)>>

\* C18: in the cheek firmware the buffer starts all-zero with total 0 and
\* every stored reading is constrained to [0, 100] (0 for a raw value of 250
\* or more, 100 for a raw value of 100 or less); so after every cycle the
\* running total is in [0, 100 * numSamples] and the average, which is the
\* number printed, is in [0, 100].
C18_CheekRange ==
  sketch = "Cheek" =>
    /\ pc = "Uninitialized" =>
         (total = Zero /\ \A i \in 1..numSamples : readings[i] = 0)
    /\ \A i \in 1..numSamples : readings[i] \in 0..100
    /\ \A k \in 1..Len(sensorLog) :
         /\ sensorLog[k].value \in 0..100
         /\ sensorLog[k].raw >= 250 => sensorLog[k].value = 0
         /\ sensorLog[k].raw <= 100 => sensorLog[k].value = 100
    /\ ~RatLess(total, Zero)
    /\ ~RatLess(<<100 * numSamples, 1>>, total)
    /\ ~RatLess(average, Zero)
    /\ ~RatLess(<<100, 1>>, average)
    /\ cycles > 0 =>
         /\ RatMul(average, <<numSamples, 1>>) = total
         /\ EndsWith(tx, CheekLabel \o PrintFloat(average, 2) \o CRLF)

\* A raw 300 (mapped to -33) stored as 0, then a raw 40 (mapped to 140)
\* stored as 100: the total is 100 and "10.00" is printed.
C18_Witness ==
  /\ sketch = "Cheek" /\ cycles = 2
  /\ sensorLog[1].raw = 300 /\ readings[1] = 0
  /\ sensorLog[2].raw = 40 /\ readings[2] = 100
  /\ total = <<100, 1>>
  /\ EndsWith(tx, <<" ", "1", "0", ".", "0", "0", "\r", "\n">>)

\* C19: an Update() reads and applies at most one line, the first one in the
\* port's buffer, and leaves every later byte pending; the k-th line the
\* consumer reads is the k-th line the producer emitted, so frames are applied
\* in emission order, each once (after the two banner lines, the j-th frame
\* emitted is the j-th frame applied).
C19_OneLinePerUpdateInOrder ==
  [][ /\ linesRead' \in {linesRead, linesRead + 1}
      /\ applied' \in {applied, applied + 1}
      /\ applied' = applied + 1 => linesRead' = linesRead + 1
      /\ linesRead' = linesRead + 1 =>
           /\ rx = lastLine' \o <<"\n">> \o rx'
           /\ lastLine' = Split(tx', "\n")[linesRead']
           /\ pc' = "Running" =>
                applied' = IF linesRead' > 2 THEN linesRead' - 2 ELSE 0 ]_vars

\* Everything the board printed in two cycles has arrived, the banner lines
\* and the first frame have been read, and the second frame is still in the
\* buffer, whole.
C19_Witness ==
  /\ cycles = 2
  /\ sent = Len(tx)
  /\ linesRead = 3
  /\ applied = 1
  /\ ~inUpdate
  /\ rx = Split(tx, "\n")[4] \o <<"\n">>
  /\ lastLine = Split(tx, "\n")[3]

\* C20: no producer output other than a frame changes consumer state: the
\* banner line, the empty line after it and the sensor-not-detected message
\* all fail the validity test, whether or not a line terminator is read with
\* them; so until the first frame is read, and for ever when the producer
\* ends in Fatal, the consumer keeps its initial orientation and plunger
\* position, applies nothing and logs nothing.
C20_OnlyFramesChangeState ==
  /\ \A line \in {Banner, Banner \o <<"\r">>, <<>>, <<"\r">>, Oops,
                  Oops \o <<"\r">>} :
       ~IsValidQuaternionData(line) /\ ~HasFrameShape(line)
  /\ (linesRead <= 2 \/ ~bnoPresent \/ pc = "Fatal") =>
       /\ localRotation = InitialRotation
       /\ localPosition = InitialPosition
       /\ applied = 0
       /\ logged = 0
  /\ linesRead \in 1..2 => ~IsValidQuaternionData(lastLine)
  /\ applied <= cycles

\* The producer is in Fatal, all it printed has arrived, the consumer has
\* read the two banner lines and is left with the unterminated message; its
\* state is the initial one.
C20_Witness ==
  /\ pc = "Fatal"
  /\ sent = Len(tx)
  /\ linesRead = 2
  /\ lastLine = <<"\r">>
  /\ rx = Oops
  /\ localRotation = InitialRotation
  /\ localPosition = InitialPosition
====
